---- MODULE Spec2Model ----
(***************************************************************************)
(* Model of the IRL cleaning-request service: the validators and the       *)
(* sliding-window RateLimiter of lib/validators.js, the HTTP handler of    *)
(* api/mcp.js and the stdio tool handler of index.js.                      *)
(*                                                                         *)
(* A JavaScript string is a sequence of one-character strings; any other   *)
(* JavaScript value is a record whose type tag is not "string".            *)
(***************************************************************************)
EXTENDS Integers, Sequences, FiniteSets, TLC

VARIABLES
    now,            \* Date.now(), in milliseconds
    requests,       \* RateLimiter.requests: identifier -> timestamps
    ret,            \* the last RateLimiter call and what it returned
    history,        \* history: per identifier, the admitted checkLimit calls
    requestStore,   \* api/mcp.js requestStore: ip -> timestamps
    traffic,        \* history: per ip, the requests that reached checkRateLimit
    pending,        \* handler runs suspended at their await, and the race losers left
    last,           \* the handler step that ran last, and its outcome
    received,       \* how many requests have arrived
    arg,            \* the argument of a validator call
    out             \* what the validator call returned

vars == <<now, requests, ret, history, requestStore, traffic, pending, last, received, arg, out>>

----------------------------------------------------------------------------
(* JavaScript values *)

Str(s) == [t |-> "string", s |-> s]
Undefined == [t |-> "undefined", s |-> <<>>]
Null == [t |-> "object", s |-> <<>>]
Num123 == [t |-> "number", s |-> <<>>]
NonText == {Undefined, Null, Num123}

typeof(v) == v.t

\* ToBoolean: "" , undefined and null are falsy; the number is non-zero
truthy(v) ==
    CASE v.t = "string" -> v.s # <<>>
      [] v.t = "number" -> TRUE
      [] OTHER -> FALSE

\* the parts of the state a specification does not use stay as they start
EmptyMap == [k \in {} |-> <<>>]

NotCalled == [done |-> FALSE, v |-> <<>>]
NoArg == [str |-> Undefined, hasMax |-> FALSE, maxLength |-> 0]
NoStep == [phase |-> "none"]

\* the suspended handlers are a bag: a function from what a suspended handler
\* is to how many of them there are
NonePending == [p \in {} |-> 0]
Suspend(bag, p) ==
    [x \in DOMAIN bag \cup {p} |-> IF x \in DOMAIN bag
                                   THEN bag[x] + (IF x = p THEN 1 ELSE 0)
                                   ELSE 1]
Resume(bag, p) ==
    [x \in {y \in DOMAIN bag : y # p \/ bag[y] > 1} |-> IF x = p THEN bag[x] - 1 ELSE bag[x]]
RECURSIVE CountOf(_, _)
CountOf(bag, of) ==
    IF of = {} THEN 0
    ELSE LET p == CHOOSE x \in of : TRUE IN bag[p] + CountOf(bag, of \ {p})
InFlight(bag) == CountOf(bag, DOMAIN bag)

HandlersIdle ==
    /\ requestStore = EmptyMap
    /\ traffic = EmptyMap
    /\ pending = NonePending
    /\ last = NoStep
    /\ received = 0

ValidatorsIdle ==
    /\ arg = NoArg
    /\ out = NotCalled

----------------------------------------------------------------------------
(* Characters and the String methods the code uses *)

Lower == <<"a","b","c","d","e","f","g","h","i","j","k","l","m","n","o","p","q","r","s","t","u","v","w","x","y","z">>
Upper == <<"A","B","C","D","E","F","G","H","I","J","K","L","M","N","O","P","Q","R","S","T","U","V","W","X","Y","Z">>
Digits == <<"0","1","2","3","4","5","6","7","8","9">>

Range(f) == {f[i] : i \in DOMAIN f}

Min(a, b) == IF a <= b THEN a ELSE b
Max(a, b) == IF a >= b THEN a ELSE b

\* \d
isDigit(c) == c \in Range(Digits)
\* [a-zA-Z]
isLetter(c) == c \in Range(Lower) \cup Range(Upper)
\* \w
isWordChar(c) == isLetter(c) \/ isDigit(c) \/ c = "_"
\* \s
isSpace(c) == c \in {" ", "\t", "\n"}

toLowerChar(c) ==
    IF c \in Range(Upper) THEN Lower[CHOOSE i \in DOMAIN Upper : Upper[i] = c] ELSE c

toLowerCase(s) == [i \in 1..Len(s) |-> toLowerChar(s[i])]

\* s has p at (1-based) position i
startsWithAt(s, i, p) ==
    /\ i >= 1
    /\ i + Len(p) - 1 <= Len(s)
    /\ \A k \in 1..Len(p) : s[i + k - 1] = p[k]

\* the same under the i flag (p is given in lower case)
startsWithAtCI(s, i, p) ==
    /\ i >= 1
    /\ i + Len(p) - 1 <= Len(s)
    /\ \A k \in 1..Len(p) : toLowerChar(s[i + k - 1]) = p[k]

\* String.prototype.includes
includes(s, p) == \E i \in 1..(Len(s) + 1) : startsWithAt(s, i, p)

\* String.prototype.trim
RECURSIVE trimStart(_)
trimStart(s) ==
    IF s # <<>> /\ isSpace(Head(s)) THEN trimStart(Tail(s)) ELSE s

RECURSIVE trimEnd(_)
trimEnd(s) ==
    IF s # <<>> /\ isSpace(s[Len(s)]) THEN trimEnd(SubSeq(s, 1, Len(s) - 1)) ELSE s

trim(s) == trimEnd(trimStart(s))

\* String.prototype.slice(0, n) for n >= 0
slice0(s, n) == SubSeq(s, 1, Min(n, Len(s)))

\* String.prototype.slice(a, b), 0-based, 0 <= a <= b
slice(s, a, b) == SubSeq(s, a + 1, Min(b, Len(s)))

----------------------------------------------------------------------------
(* The regular expressions of sanitizeString.  MatchEnd(re, s, i) is the   *)
(* position after the match of re that starts at position i of s, or 0     *)
(* when re does not match there.                                           *)

ScriptOpen == <<"<","s","c","r","i","p","t">>
ScriptClose == <<"<","/","s","c","r","i","p","t",">">>
StyleOpen == <<"<","s","t","y","l","e">>
StyleClose == <<"<","/","s","t","y","l","e",">">>
JavascriptScheme == <<"j","a","v","a","s","c","r","i","p","t",":">>

\* the least position >= from at which s has p (ignoring case), or 0
FirstAtCI(s, from, p) ==
    LET hits == {j \in from..Len(s) : startsWithAtCI(s, j, p)}
    IN  IF hits = {} THEN 0 ELSE CHOOSE j \in hits : \A k \in hits : j <= k

\* /<open\b[^<]*(?:(?!<\/close>)<[^<]*)*<\/close>/i at position i: the
\* opening word, a word boundary, then everything up to the first closing tag
ElementEnd(s, i, open, close) ==
    IF /\ startsWithAtCI(s, i, open)
       /\ i + Len(open) <= Len(s)
       /\ ~isWordChar(s[i + Len(open)])
    THEN LET p == FirstAtCI(s, i + Len(open), close)
         IN  IF p = 0 THEN 0 ELSE p + Len(close)
    ELSE 0

\* /<[^>]*>/ at position i: up to the first ">"
TagEnd(s, i) ==
    IF s[i] = "<"
    THEN LET closes == {j \in (i + 1)..Len(s) : s[j] = ">"}
         IN  IF closes = {} THEN 0
             ELSE (CHOOSE j \in closes : \A k \in closes : j <= k) + 1
    ELSE 0

\* the end of the run of characters of class word (TRUE) or space (FALSE)
\* that starts at position i
RunEnd(s, i, word) ==
    LET stops == {j \in i..Len(s) : ~(IF word THEN isWordChar(s[j]) ELSE isSpace(s[j]))}
    IN  IF stops = {} THEN Max(i, Len(s) + 1)
        ELSE CHOOSE j \in stops : \A k \in stops : j <= k

\* /on\w+\s*=/i at position i
HandlerEnd(s, i) ==
    IF startsWithAtCI(s, i, <<"o","n">>)
    THEN LET w == RunEnd(s, i + 2, TRUE)
             e == RunEnd(s, w, FALSE)
         IN  IF w > i + 2 /\ e <= Len(s) /\ s[e] = "=" THEN e + 1 ELSE 0
    ELSE 0

MatchEnd(re, s, i) ==
    CASE re = "script" -> ElementEnd(s, i, ScriptOpen, ScriptClose)
      [] re = "style" -> ElementEnd(s, i, StyleOpen, StyleClose)
      [] re = "tag" -> TagEnd(s, i)
      [] re = "special" -> IF s[i] \in {"<", ">", "\"", "'"} THEN i + 1 ELSE 0
      [] re = "javascript" ->
            IF startsWithAtCI(s, i, JavascriptScheme) THEN i + Len(JavascriptScheme) ELSE 0
      [] re = "handler" -> HandlerEnd(s, i)

\* s.replace(/re/g, ''): the matches are found left to right, each search
\* starting where the match before it ended
RECURSIVE RemoveFrom(_, _, _)
RemoveFrom(re, s, i) ==
    LET starts == {j \in i..Len(s) : MatchEnd(re, s, j) > j}
    IN  IF starts = {} THEN SubSeq(s, i, Len(s))
        ELSE LET j == CHOOSE m \in starts : \A k \in starts : m <= k
             IN  SubSeq(s, i, j - 1) \o RemoveFrom(re, s, MatchEnd(re, s, j))

removeAll(re, s) == RemoveFrom(re, s, 1)

----------------------------------------------------------------------------
(* lib/validators.js: sanitizeString *)

DefaultMaxLength == 200

sanitizeString_keepsQuotes(str, maxLength) ==
    IF typeof(str) # "string" THEN <<>>
    ELSE slice0(trim(removeAll("handler", removeAll("javascript",
            removeAll("tag", removeAll("style", removeAll("script", str.s)))))),
            maxLength)

sanitizeString(str, maxLength) ==
    IF typeof(str) # "string" THEN <<>>
    ELSE slice0(trim(removeAll("handler", removeAll("javascript", removeAll("special",
            removeAll("tag", removeAll("style", removeAll("script", str.s))))))),
            maxLength)

----------------------------------------------------------------------------
(* lib/validators.js: validatePhone *)

\* phone.replace(/\D/g, '')
digitsOf(s) == SelectSeq(s, isDigit)

formatPhone_withCountryCode(cleaned) ==
    <<"+", "1", "-">> \o slice(cleaned, 0, 3) \o <<"-">> \o slice(cleaned, 3, 6) \o <<"-">> \o slice(cleaned, 6, Len(cleaned))

\* `${cleaned.slice(0,3)}-${cleaned.slice(3,6)}-${cleaned.slice(6)}`
formatPhone(cleaned) ==
    slice(cleaned, 0, 3) \o <<"-">> \o slice(cleaned, 3, 6) \o <<"-">> \o slice(cleaned, 6, Len(cleaned))

startsWith(s, p) == startsWithAt(s, 1, p)

PhoneInvalid == [valid |-> FALSE, cleaned |-> Null]

validatePhone_noMinusCheck(phone) ==
    IF typeof(phone) # "string" THEN PhoneInvalid
    ELSE LET digits == digitsOf(phone.s)
             cleaned == IF Len(digits) = 11 /\ digits[1] = "1" THEN Tail(digits) ELSE digits
         IN  IF Len(cleaned) # 10 THEN PhoneInvalid
             ELSE IF cleaned[1] = "0" \/ cleaned[1] = "1" THEN PhoneInvalid
             ELSE [valid |-> TRUE, cleaned |-> Str(formatPhone(cleaned))]

validatePhone(phone) ==
    IF typeof(phone) # "string" THEN PhoneInvalid
    ELSE LET digits == digitsOf(phone.s)
             cleaned == IF Len(digits) = 11 /\ digits[1] = "1" THEN Tail(digits) ELSE digits
         IN  IF Len(cleaned) # 10 THEN PhoneInvalid
             ELSE IF cleaned[1] = "0" \/ cleaned[1] = "1" THEN PhoneInvalid
             ELSE IF startsWith(trim(phone.s), <<"-">>) THEN PhoneInvalid
             ELSE [valid |-> TRUE, cleaned |-> Str(formatPhone(cleaned))]

----------------------------------------------------------------------------
(* lib/validators.js: validateSFAddress *)

sfIndicators ==
    << <<"s","f">>,
       <<"s","a","n"," ","f","r","a","n","c","i","s","c","o">>,
       <<"s","a","n","f","r","a","n","c","i","s","c","o">>,
       <<"s",".","f",".">>,
       <<"s","a","n"," ","f","r","a","n">> >>

\* indicator.replace('.', '\\.') escapes the first "." only: every later "."
\* stays the regular expression's wildcard, written "any" here
indicatorPattern(indicator) ==
    LET dots == {i \in DOMAIN indicator : indicator[i] = "."}
    IN  [i \in DOMAIN indicator |->
            IF i \in dots /\ \E j \in dots : j < i THEN "any" ELSE indicator[i]]

\* \b before position i of s
wordBoundary(s, i) ==
    LET before == i - 1 >= 1 /\ i - 1 <= Len(s) /\ isWordChar(s[i - 1])
        after == i >= 1 /\ i <= Len(s) /\ isWordChar(s[i])
    IN  before # after

atomMatches(atom, c) ==
    IF atom = "any" THEN c \notin {"\n", "\r"} ELSE c = atom

\* new RegExp(`\\b${pattern}\\b`).test(s)
testWordBounded(s, pattern) ==
    \E i \in 1..Len(s) :
        /\ i + Len(pattern) - 1 <= Len(s)
        /\ wordBoundary(s, i)
        /\ \A k \in DOMAIN pattern : atomMatches(pattern[k], s[i + k - 1])
        /\ wordBoundary(s, i + Len(pattern))

\* /\b94(1[0-8]\d|0\d{2})\b/.test(s)
testSFZip(s) ==
    \E i \in 1..Len(s) :
        /\ i + 4 <= Len(s)
        /\ wordBoundary(s, i)
        /\ s[i] = "9" /\ s[i + 1] = "4"
        /\ \/ s[i + 2] = "1" /\ isDigit(s[i + 3]) /\ s[i + 3] # "9" /\ isDigit(s[i + 4])
           \/ s[i + 2] = "0" /\ isDigit(s[i + 3]) /\ isDigit(s[i + 4])
        /\ wordBoundary(s, i + 5)

validateSFAddress(address) ==
    IF typeof(address) # "string" THEN FALSE
    ELSE LET addr == toLowerCase(address.s)
             hasSFText == \E n \in DOMAIN sfIndicators :
                              testWordBounded(addr, indicatorPattern(sfIndicators[n]))
             hasSFZip == testSFZip(addr)
         IN  hasSFText \/ hasSFZip

----------------------------------------------------------------------------
(* lib/validators.js: validateName *)

MinNameLength == 2
MaxNameLength == 100

\* /^[a-zA-Z\s\-']+$/
nameCharacters(s) ==
    s # <<>> /\ \A i \in DOMAIN s : isLetter(s[i]) \/ isSpace(s[i]) \/ s[i] \in {"-", "'"}

sqlPattern(s) ==
    \/ includes(s, <<"-","-">>)
    \/ includes(s, <<"/","*">>)
    \/ includes(s, <<"*","/">>)
    \/ includes(s, <<";">>)
    \/ includes(toLowerCase(s), <<"d","r","o","p">>)
    \/ includes(toLowerCase(s), <<"d","e","l","e","t","e">>)
    \/ includes(toLowerCase(s), <<"u","n","i","o","n">>)

NameInvalid(reason) == [valid |-> FALSE, reason |-> reason]

validateName(name) ==
    IF typeof(name) # "string" THEN NameInvalid("Name must be a string")
    ELSE LET cleaned == trim(name.s)
         IN  IF Len(cleaned) < MinNameLength THEN NameInvalid("Name too short")
             ELSE IF Len(cleaned) > MaxNameLength THEN NameInvalid("Name too long")
             ELSE IF ~nameCharacters(cleaned) THEN NameInvalid("Name contains invalid characters")
             ELSE IF sqlPattern(cleaned) THEN NameInvalid("Name contains invalid characters")
             ELSE IF ~\E i \in DOMAIN cleaned : isLetter(cleaned[i])
                  THEN NameInvalid("Name must contain letters")
             ELSE [valid |-> TRUE, reason |-> "undefined"]

----------------------------------------------------------------------------
(* lib/validators.js: class RateLimiter.  The Map this.requests is a       *)
(* function from the identifiers it holds to their arrays of timestamps.   *)

Limit == 2
WindowMs == 3
MaxTime == 4

Identifiers == {"user1", "undefined"}

MapHas(map, key) == key \in DOMAIN map
\* map.get(key) || []
MapGetOrEmpty(map, key) == IF key \in DOMAIN map THEN map[key] ELSE <<>>
MapSet(map, key, value) == [k \in DOMAIN map \cup {key} |-> IF k = key THEN value ELSE map[k]]
MapDelete(map, key) == [k \in DOMAIN map \ {key} |-> map[k]]

\* array.filter(time => t - time < windowMs)
recent(array, t, windowMs) == SelectSeq(array, LAMBDA time : t - time < windowMs)

checkLimit_offByOne(map, identifier, t) ==
    LET recentRequests == recent(MapGetOrEmpty(map, identifier), t, WindowMs)
    IN  IF Len(recentRequests) > Limit
        THEN [result |-> FALSE, requests |-> map]
        ELSE [result |-> TRUE, requests |-> MapSet(map, identifier, Append(recentRequests, t))]

checkLimit_inclusiveWindow(map, identifier, t) ==
    LET recentRequests == recent(MapGetOrEmpty(map, identifier), t, WindowMs + 1)
    IN  IF Len(recentRequests) >= Limit
        THEN [result |-> FALSE, requests |-> map]
        ELSE [result |-> TRUE, requests |-> MapSet(map, identifier, Append(recentRequests, t))]

\* one quota for every caller: the identifier is ignored
checkLimit_sharedQuota(map, identifier, t) ==
    LET recentRequests == recent(MapGetOrEmpty(map, "user1"), t, WindowMs)
    IN  IF Len(recentRequests) >= Limit
        THEN [result |-> FALSE, requests |-> map]
        ELSE [result |-> TRUE, requests |-> MapSet(map, "user1", Append(recentRequests, t))]

checkLimit_recordsDenied(map, identifier, t) ==
    LET recentRequests == recent(MapGetOrEmpty(map, identifier), t, WindowMs)
    IN  IF Len(recentRequests) >= Limit
        THEN [result |-> FALSE, requests |-> MapSet(map, identifier, Append(recentRequests, t))]
        ELSE [result |-> TRUE, requests |-> MapSet(map, identifier, Append(recentRequests, t))]

\* checkLimit up to its return value and its write of the map; the random
\* cleanup that may follow an admitted call is in the action CheckLimit
checkLimit(map, identifier, t) ==
    LET userRequests == MapGetOrEmpty(map, identifier)
        recentRequests == recent(userRequests, t, WindowMs)
    IN  IF Len(recentRequests) >= Limit
        THEN [result |-> FALSE, requests |-> map]
        ELSE [result |-> TRUE, requests |-> MapSet(map, identifier, Append(recentRequests, t))]

cleanup_clearsAll(map, t) == EmptyMap

cleanup_keepsEmpty(map, t) ==
    [key \in DOMAIN map |-> recent(map[key], t, WindowMs)]

cleanup(map, t) ==
    LET kept == {key \in DOMAIN map : Len(recent(map[key], t, WindowMs)) # 0}
    IN  [key \in kept |-> recent(map[key], t, WindowMs)]

reset_clearsAll(map, identifier) ==
    IF identifier \in DOMAIN map THEN EmptyMap ELSE map

reset(map, identifier) == MapDelete(map, identifier)

getRemaining_inclusiveWindow(map, identifier, t) ==
    LET recentRequests == recent(MapGetOrEmpty(map, identifier), t, WindowMs + 1)
    IN  Max(0, Limit - Len(recentRequests))

getRemaining_countsExpired(map, identifier, t) ==
    Max(0, Limit - Len(MapGetOrEmpty(map, identifier)))

getRemaining(map, identifier, t) ==
    LET recentRequests == recent(MapGetOrEmpty(map, identifier), t, WindowMs)
    IN  Max(0, Limit - Len(recentRequests))

NoLimiterCall ==
    [op |-> "none", id |-> "none", result |-> FALSE, remaining |-> 0, at |-> 0,
     stored |-> 0, earliest |-> 0, inWindow |-> 0, wasDenied |-> FALSE, before |-> EmptyMap]

NoHistory == [id \in Identifiers |-> [admitted |-> <<>>, denied |-> FALSE]]

\* how many of the admitted calls of the history lie in [from, from + windowMs)
AdmittedIn(times, from, windowMs) ==
    Cardinality({i \in DOMAIN times : from <= times[i] /\ times[i] < from + windowMs})

\* what a call records beside its result: the map and the array stored for
\* the identifier before the call, and the admitted calls of the window that
\* ends at the call
CallRecord(op, id, result, remaining) ==
    LET stored == MapGetOrEmpty(requests, id)
    IN  [op |-> op, id |-> id, result |-> result, remaining |-> remaining, at |-> now,
         stored |-> Len(stored),
         earliest |-> IF stored = <<>> THEN 0 ELSE stored[1],
         inWindow |-> IF id \in Identifiers
                      THEN AdmittedIn(history[id].admitted, now - WindowMs + 1, WindowMs)
                      ELSE 0,
         wasDenied |-> id \in Identifiers /\ history[id].denied,
         before |-> requests]

\* Math.random() < 0.01 decides whether the cleanup runs: sweep
CheckLimit(identifier, sweep) ==
    LET r == checkLimit(requests, identifier, now)
    IN  /\ ret' = CallRecord("checkLimit", identifier, r.result, 0)
        /\ requests' = IF r.result /\ sweep THEN cleanup(r.requests, now) ELSE r.requests
        /\ history' = [history EXCEPT ![identifier] =
                          [admitted |-> IF r.result THEN Append(@.admitted, now) ELSE @.admitted,
                           denied |-> ~r.result]]
        /\ UNCHANGED <<now, requestStore, traffic, pending, last, received, arg, out>>

Cleanup ==
    /\ requests' = cleanup(requests, now)
    /\ ret' = CallRecord("cleanup", "none", FALSE, 0)
    /\ UNCHANGED <<now, history, requestStore, traffic, pending, last, received, arg, out>>

\* the history of an identifier starts again at its reset
Reset(identifier) ==
    /\ requests' = reset(requests, identifier)
    /\ ret' = CallRecord("reset", identifier, FALSE, 0)
    /\ history' = [history EXCEPT ![identifier] = [admitted |-> <<>>, denied |-> FALSE]]
    /\ UNCHANGED <<now, requestStore, traffic, pending, last, received, arg, out>>

GetRemaining(identifier) ==
    /\ ret' = CallRecord("getRemaining", identifier, FALSE, getRemaining(requests, identifier, now))
    /\ UNCHANGED <<now, requests, history, requestStore, traffic, pending, last, received, arg, out>>

\* the clock moves on by d milliseconds
Advance(d, limit) ==
    /\ now + d <= limit
    /\ now' = now + d
    /\ UNCHANGED <<requests, ret, history, requestStore, traffic, pending, last, received, arg, out>>

LimiterIdle ==
    /\ requests = EmptyMap
    /\ ret = NoLimiterCall
    /\ history = NoHistory

InitLimiter ==
    /\ now = 0
    /\ LimiterIdle
    /\ HandlersIdle
    /\ ValidatorsIdle

NextLimiter ==
    \/ \E identifier \in Identifiers, sweep \in BOOLEAN : CheckLimit(identifier, sweep)
    \/ Cleanup
    \/ \E identifier \in Identifiers : Reset(identifier)
    \/ \E identifier \in Identifiers : GetRemaining(identifier)
    \/ Advance(1, MaxTime)

SpecLimiter == InitLimiter /\ [][NextLimiter]_vars

\* C2: a checkLimit call made when `limit` calls of the identifier were
\* admitted in the window that ends at the call returns false, and no span of
\* windowMs milliseconds holds more than `limit` admitted calls of one
\* identifier (the calls since the identifier's last reset).
C2_NeverOverLimit ==
    /\ (ret.op = "checkLimit" /\ ret.inWindow >= Limit) => ~ret.result
    /\ \A id \in Identifiers : \A from \in 0..now :
          AdmittedIn(history[id].admitted, from, WindowMs) <= Limit

\* a call was denied with exactly `limit` admitted calls in its window
C2_Witness ==
    /\ ret.op = "checkLimit"
    /\ ret.inWindow = Limit
    /\ ~ret.result
    /\ Len(history[ret.id].admitted) > Limit

\* C3: a checkLimit call made when windowMs or more has passed since the
\* earliest timestamp recorded for the identifier is admitted.
C3_AdmittedAgain ==
    (ret.op = "checkLimit" /\ ret.stored > 0 /\ ret.at - ret.earliest >= WindowMs)
        => ret.result

\* the identifier held `limit` timestamps, its call before this one was
\* denied, and this call, windowMs after the earliest of them, is admitted
C3_Witness ==
    /\ ret.op = "checkLimit"
    /\ ret.stored = Limit
    /\ ret.at - ret.earliest = WindowMs
    /\ ret.result
    /\ ret.inWindow = Limit - 1
    /\ ret.wasDenied

\* the timestamps of array that are less than windowMs old at time t
Unexpired(array, t) == {i \in DOMAIN array : array[i] > t - WindowMs}

\* C17: a checkLimit call that returns false leaves the map as it was: no
\* timestamp recorded, no other identifier's entry changed, no cleanup run.
C17_DeniedLeavesState ==
    (ret.op = "checkLimit" /\ ~ret.result) => requests = ret.before

\* a call was denied while another identifier held only expired timestamps,
\* which a cleanup would have removed
C17_Witness ==
    /\ ret.op = "checkLimit"
    /\ ~ret.result
    /\ \E other \in DOMAIN requests :
          /\ other # ret.id
          /\ requests[other] # <<>>
          /\ Unexpired(requests[other], ret.at) = {}

\* C18: getRemaining changes nothing and returns max(0, limit - n), n the
\* identifier's timestamps still in the window; it is never negative, it is
\* `limit` for an identifier never seen, and it is 0 exactly when a checkLimit
\* of the identifier at the same instant would be denied.
C18_Remaining ==
    ret.op = "getRemaining" =>
        LET n == Cardinality(Unexpired(MapGetOrEmpty(ret.before, ret.id), ret.at))
        IN  /\ requests = ret.before
            /\ ret.remaining = (IF Limit - n > 0 THEN Limit - n ELSE 0)
            /\ ret.remaining >= 0
            /\ ret.id \notin DOMAIN ret.before => ret.remaining = Limit
            /\ ret.remaining = 0 <=> ~checkLimit(ret.before, ret.id, ret.at).result

\* getRemaining returned more than the stored array alone would give, because
\* one of the stored timestamps had expired
C18_Witness ==
    /\ ret.op = "getRemaining"
    /\ ret.stored = Limit
    /\ ret.remaining = 1
    /\ ret.wasDenied

\* C19: after reset(id), getRemaining(id) is `limit`, checkLimit(id) is
\* admitted, and the timestamps of every other identifier are as before.
C19_ResetClearsOne ==
    ret.op = "reset" =>
        /\ getRemaining(requests, ret.id, now) = Limit
        /\ Limit >= 1 => checkLimit(requests, ret.id, now).result
        /\ ret.id \notin DOMAIN requests
        /\ DOMAIN requests = DOMAIN ret.before \ {ret.id}
        /\ \A other \in DOMAIN requests : requests[other] = ret.before[other]

\* an identifier that was being denied was reset at the instant of the denial
\* while another identifier held timestamps
C19_Witness ==
    /\ ret.op = "reset"
    /\ ret.wasDenied
    /\ ret.stored = Limit
    /\ ret.at = now
    /\ ret.at - ret.earliest < WindowMs
    /\ requests # EmptyMap

\* C20: after cleanup() the map holds exactly the identifiers with a
\* timestamp still in the window, each with exactly its unexpired timestamps
\* in their order.
C20_CleanupExact ==
    ret.op = "cleanup" =>
        /\ DOMAIN requests = {k \in DOMAIN ret.before : Unexpired(ret.before[k], ret.at) # {}}
        /\ \A k \in DOMAIN requests :
              LET old == ret.before[k]
              IN  /\ Len(requests[k]) = Cardinality(Unexpired(old, ret.at))
                  /\ \A i \in DOMAIN requests[k] :
                        \E j \in Unexpired(old, ret.at) :
                            /\ requests[k][i] = old[j]
                            /\ Cardinality({m \in Unexpired(old, ret.at) : m < j}) = i - 1

\* a cleanup removed one identifier and kept another with one timestamp dropped
C20_Witness ==
    /\ ret.op = "cleanup"
    /\ \E k \in DOMAIN ret.before : k \notin DOMAIN requests
    /\ \E k \in DOMAIN requests :
          /\ Len(requests[k]) < Len(ret.before[k])
          /\ requests[k] # <<>>

\* the instants from now on at which a later call can be made
Later == now..(MaxTime + WindowMs)

\* C21: every identifier has its own quota and undefined is an identifier
\* like any other: checkLimit(undefined) is admitted exactly while fewer than
\* `limit` of its calls were admitted in the window, and a call made under one
\* identifier changes no result of checkLimit or getRemaining, now or later,
\* for another identifier.
C21_IndependentQuotas ==
    /\ (ret.op = "checkLimit" /\ ret.id = "undefined") =>
          (ret.result <=> ret.inWindow < Limit)
    /\ ret.op \in {"checkLimit", "getRemaining", "reset"} =>
          \A other \in Identifiers \ {ret.id} : \A t \in Later :
              /\ checkLimit(requests, other, t).result = checkLimit(ret.before, other, t).result
              /\ getRemaining(requests, other, t) = getRemaining(ret.before, other, t)

\* checkLimit(undefined) was denied at its limit at an instant when the other
\* identifier, which holds a timestamp of its own, is still admitted
C21_Witness ==
    /\ ret.op = "checkLimit"
    /\ ret.id = "undefined"
    /\ ~ret.result
    /\ ret.inWindow = Limit
    /\ "user1" \in DOMAIN requests
    /\ getRemaining(requests, "user1", now) = Limit - 1
    /\ checkLimit(requests, "user1", now).result

\* how many timestamps of array are at most windowMs old at time t
CountInclusive(array, t) == Cardinality({i \in DOMAIN array : t - array[i] <= WindowMs})

\* C23 as stated: a timestamp counts toward the limit as long as it is at most
\* windowMs old, so an identifier with `limit` timestamps the oldest of which
\* is exactly windowMs old is denied.
C23_InclusiveWindow ==
    /\ ret.op = "checkLimit" =>
          (CountInclusive(MapGetOrEmpty(ret.before, ret.id), ret.at) >= Limit => ~ret.result)
    /\ ret.op = "getRemaining" =>
          (CountInclusive(MapGetOrEmpty(ret.before, ret.id), ret.at) >= Limit => ret.remaining = 0)

\* C23 amended: a timestamp counts toward the limit exactly while it is less
\* than windowMs old; an identifier with `limit` timestamps is denied while
\* the oldest is less than windowMs old and is admitted, with one remaining,
\* at the instant the oldest is exactly windowMs old.
C23_ExclusiveWindow ==
    LET n == Cardinality(Unexpired(MapGetOrEmpty(ret.before, ret.id), ret.at))
        full == ret.stored = Limit
    IN  /\ ret.op = "checkLimit" =>
              /\ ret.result <=> n < Limit
              /\ (full /\ ret.at - ret.earliest < WindowMs) => ~ret.result
              /\ (full /\ ret.at - ret.earliest = WindowMs) => ret.result
        /\ ret.op = "getRemaining" =>
              /\ ret.remaining = 0 <=> n >= Limit
              /\ (full /\ ret.at - ret.earliest = WindowMs) => ret.remaining >= 1

\* getRemaining was asked for an identifier with `limit` timestamps at the
\* instant the oldest was exactly windowMs old, after a denial
C23_Witness ==
    /\ ret.op = "getRemaining"
    /\ ret.stored = Limit
    /\ ret.at - ret.earliest = WindowMs
    /\ ret.remaining >= 1
    /\ ret.wasDenied

\* C28: every identifier in the map holds a non-empty array of at most `limit`
\* timestamps in non-decreasing order.
C28_StoredArrays ==
    \A k \in DOMAIN requests :
        /\ requests[k] # <<>>
        /\ Len(requests[k]) <= Limit
        /\ \A i, j \in DOMAIN requests[k] : i <= j => requests[k][i] <= requests[k][j]

\* after a cleanup that removed an identifier, another identifier holds
\* `limit` timestamps recorded at different instants
C28_Witness ==
    /\ ret.op = "cleanup"
    /\ DOMAIN requests # DOMAIN ret.before
    /\ \E k \in DOMAIN requests :
          /\ Len(requests[k]) = Limit
          /\ requests[k][1] < requests[k][Limit]

\* C29: cleanup changes no result: at every instant the results of checkLimit
\* and getRemaining for every identifier are those the admitted calls of the
\* identifier determine, whether or not a cleanup ran before, and a cleanup
\* run now (directly or inside an admitted checkLimit) changes no result of a
\* call made now or later.
C29_CleanupTransparent ==
    /\ \A id \in Identifiers :
          LET n == Len(recent(history[id].admitted, now, WindowMs))
          IN  /\ checkLimit(requests, id, now).result <=> n < Limit
              /\ getRemaining(requests, id, now) = Max(0, Limit - n)
    /\ cleanup(requests, now) # requests =>
          \A id \in Identifiers : \A t \in Later :
              /\ checkLimit(cleanup(requests, now), id, t).result = checkLimit(requests, id, t).result
              /\ getRemaining(cleanup(requests, now), id, t) = getRemaining(requests, id, t)

\* the cleanup inside an admitted checkLimit removed another identifier's
\* expired timestamps
C29_Witness ==
    /\ ret.op = "checkLimit"
    /\ ret.result
    /\ requests # checkLimit(ret.before, ret.id, ret.at).requests
    /\ \E other \in DOMAIN ret.before : other # ret.id /\ other \notin DOMAIN requests

----------------------------------------------------------------------------
(* api/mcp.js: the helpers of the HTTP handler *)

RATE_LIMIT == 10
RATE_WINDOW == 60000

checkRateLimit_offByOne(store, ip, t) ==
    LET recentRequests == recent(MapGetOrEmpty(store, ip), t, RATE_WINDOW)
    IN  IF Len(recentRequests) > RATE_LIMIT
        THEN [result |-> FALSE, requestStore |-> store]
        ELSE [result |-> TRUE, requestStore |-> MapSet(store, ip, Append(recentRequests, t))]

checkRateLimit(store, ip, t) ==
    LET userRequests == MapGetOrEmpty(store, ip)
        recentRequests == recent(userRequests, t, RATE_WINDOW)
    IN  IF Len(recentRequests) >= RATE_LIMIT
        THEN [result |-> FALSE, requestStore |-> store]
        ELSE [result |-> TRUE, requestStore |-> MapSet(store, ip, Append(recentRequests, t))]

mcp_sanitizeString(str, maxLength) ==
    IF typeof(str) # "string" THEN <<>>
    ELSE slice0(trim(removeAll("special", removeAll("tag", str.s))), maxLength)

\* phone.replace throws a TypeError when phone is not a string
mcp_validatePhone(phone) ==
    IF typeof(phone) # "string" THEN [threw |-> TRUE, valid |-> FALSE, cleaned |-> <<>>]
    ELSE LET cleaned == digitsOf(phone.s)
         IN  IF Len(cleaned) # 10 THEN [threw |-> FALSE, valid |-> FALSE, cleaned |-> <<>>]
             ELSE [threw |-> FALSE, valid |-> TRUE, cleaned |-> formatPhone(cleaned)]

\* /94[01]\d{2}/.test(s)
testZipPrefix(s) ==
    \E i \in 1..Len(s) :
        /\ i + 4 <= Len(s)
        /\ s[i] = "9" /\ s[i + 1] = "4" /\ s[i + 2] \in {"0", "1"}
        /\ isDigit(s[i + 3]) /\ isDigit(s[i + 4])

handlerIndicators ==
    << <<"s","f">>,
       <<"s","a","n"," ","f","r","a","n","c","i","s","c","o">>,
       <<"s","a","n","f","r","a","n","c","i","s","c","o">> >>

\* address is the sanitized address, a string
mcp_validateSFAddress(address) ==
    LET addr == toLowerCase(address)
        hasSFText == \E n \in DOMAIN handlerIndicators : includes(addr, handlerIndicators[n])
        hasSFZip == testZipPrefix(addr)
    IN  hasSFText \/ hasSFZip

----------------------------------------------------------------------------
(* index.js: the helpers of the stdio handler *)

index_sanitizeString(str, maxLength) ==
    IF typeof(str) # "string" THEN <<>>
    ELSE slice0(trim(removeAll("special", removeAll("tag", str.s))), maxLength)

index_validatePhone(phone) ==
    IF typeof(phone) # "string" THEN [threw |-> FALSE, valid |-> FALSE, cleaned |-> <<>>]
    ELSE LET cleaned == digitsOf(phone.s)
         IN  IF Len(cleaned) # 10 THEN [threw |-> FALSE, valid |-> FALSE, cleaned |-> <<>>]
             ELSE [threw |-> FALSE, valid |-> TRUE, cleaned |-> formatPhone(cleaned)]

index_validateSFAddress(address) ==
    LET addr == toLowerCase(address)
        hasSFText == \E n \in DOMAIN handlerIndicators : includes(addr, handlerIndicators[n])
        hasSFZip == testZipPrefix(addr)
    IN  hasSFText \/ hasSFZip

MinAddressLength == 10
EmailTimeoutMs == 10000

----------------------------------------------------------------------------
(* The two handlers.  A handler runs without interruption up to its await  *)
(* of resend.emails.send; what it did is a record:                         *)
(*   trace     the steps it took, in order                                 *)
(*   admitted  the rate limiter was asked and said yes                     *)
(*   verdict   what each check it ran said ("none" when it did not run)    *)
(*   resp      the response it returned (none while it awaits)             *)
(*   awaiting  it called resend.emails.send and awaits the result          *)
(*   email     the name, phone and address it put in the message           *)

MsgDecline == "Sorry, we only serve San Francisco currently. We're expanding - stay tuned!"
MsgBooked == "Successfully booked the maid. Will get confirmation shortly."

Resp(status, kind, text) == [status |-> status, kind |-> kind, text |-> text]
NoResp == Resp(0, "none", "")
\* the stdio handler returns { content: [{ type: 'text', text }] }
Text(text) == Resp(0, "content", text)

NoEmail == [name |-> <<>>, phone |-> <<>>, address |-> <<>>]
NoVerdict == [name |-> "none", phone |-> "none", addressLength |-> "none", region |-> "none"]

Ran(store, trace, admitted, verdict, resp) ==
    [requestStore |-> store, trace |-> trace, admitted |-> admitted, verdict |-> verdict,
     resp |-> resp, awaiting |-> FALSE, email |-> NoEmail]

Awaits(store, trace, admitted, verdict, email) ==
    [requestStore |-> store, trace |-> trace, admitted |-> admitted, verdict |-> verdict,
     resp |-> NoResp, awaiting |-> TRUE, email |-> email]

\* the SF check with its early return left out
mcp_regionCheck_sendsAnyway(store, trace, verdict, inRegion, apiKey, email) ==
    LET v == [verdict EXCEPT !.region = IF inRegion THEN "in" ELSE "out"]
    IN  IF ~apiKey
        THEN Ran(store, trace, TRUE, v, Resp(500, "error", "Email service temporarily unavailable"))
        ELSE Awaits(store, trace \o <<"send">>, TRUE, v, email)

\* api/mcp.js: the SF check of the tools/call branch, and what follows it up to
\* the await of resend.emails.send
mcp_regionCheck(store, trace, verdict, inRegion, apiKey, email) ==
    IF ~inRegion
    THEN Ran(store, trace, TRUE, [verdict EXCEPT !.region = "out"],
             Resp(200, "content", MsgDecline))
    ELSE IF ~apiKey
    THEN Ran(store, trace, TRUE, [verdict EXCEPT !.region = "in"],
             Resp(500, "error", "Email service temporarily unavailable"))
    ELSE Awaits(store, trace \o <<"send">>, TRUE, [verdict EXCEPT !.region = "in"], email)

\* api/mcp.js: the tools/call branch of the handler, after the rate limit
mcp_requestCleaning(req, store) ==
    LET t0 == <<"rateLimit">>
    IN
    IF ~truthy(req.name) \/ ~truthy(req.phone) \/ ~truthy(req.address)
    THEN Ran(store, t0, TRUE, NoVerdict,
             Resp(400, "error", "Missing required fields: name, phone, and address"))
    ELSE
    LET cleanName == mcp_sanitizeString(req.name, 100)
        cleanAddress == mcp_sanitizeString(req.address, 200)
        t1 == t0 \o <<"sanitize", "name">>
    IN
    IF Len(cleanName) < 2
    THEN Ran(store, t1, TRUE, [NoVerdict EXCEPT !.name = "invalid"],
             Resp(400, "error", "Invalid name provided"))
    ELSE
    LET phoneValidation == mcp_validatePhone(req.phone)
        t2 == t1 \o <<"phone">>
        v2 == [NoVerdict EXCEPT !.name = "valid"]
    IN
    IF phoneValidation.threw
    THEN Ran(store, t2, TRUE, v2,
             Resp(500, "error", "Service temporarily unavailable. Please try again."))
    ELSE IF ~phoneValidation.valid
    THEN Ran(store, t2, TRUE, [v2 EXCEPT !.phone = "invalid"],
             Resp(400, "error", "Invalid phone number. Please provide a 10-digit US phone number."))
    ELSE
    mcp_regionCheck(store, t2 \o <<"classify">>, [v2 EXCEPT !.phone = "valid"],
                    mcp_validateSFAddress(cleanAddress), req.apiKey,
                    [name |-> cleanName, phone |-> phoneValidation.cleaned, address |-> cleanAddress])

\* api/mcp.js: handler(req, res), up to its await
mcp_handler(req, store, t) ==
    IF req.httpMethod = "OPTIONS" THEN Ran(store, <<>>, FALSE, NoVerdict, Resp(200, "empty", ""))
    ELSE IF req.httpMethod # "POST"
    THEN Ran(store, <<>>, FALSE, NoVerdict, Resp(405, "error", "Method not allowed"))
    ELSE
    LET limit == checkRateLimit(store, req.ip, t)
    IN
    IF ~limit.result
    THEN Ran(limit.requestStore, <<"rateLimit">>, FALSE, NoVerdict,
             Resp(429, "error", "Too many requests. Please try again later."))
    ELSE IF req.body = "none"
    THEN Ran(limit.requestStore, <<"rateLimit">>, TRUE, NoVerdict,
             Resp(400, "error", "Invalid request body"))
    ELSE IF req.body = "large"
    THEN Ran(limit.requestStore, <<"rateLimit">>, TRUE, NoVerdict,
             Resp(413, "error", "Request too large"))
    ELSE IF req.rpc = "initialize"
    THEN Ran(limit.requestStore, <<"rateLimit">>, TRUE, NoVerdict, Resp(200, "json", "initialize"))
    ELSE IF req.rpc = "tools/list"
    THEN Ran(limit.requestStore, <<"rateLimit">>, TRUE, NoVerdict, Resp(200, "json", "tools"))
    ELSE IF req.rpc = "tools/call" /\ req.tool = "request_cleaning"
    THEN mcp_requestCleaning(req, limit.requestStore)
    ELSE Ran(limit.requestStore, <<"rateLimit">>, TRUE, NoVerdict,
             Resp(400, "error", "Unknown method"))

\* the handler without its catch: a rejected send leaves the request unanswered
mcp_settle_noCatch(outcome) ==
    CASE outcome = "error" ->
            Resp(500, "error", "Failed to send booking request. Please try again.")
      [] outcome = "reject" -> NoResp
      [] outcome = "ok" -> Resp(200, "content", MsgBooked)

\* api/mcp.js: what the handler returns once resend.emails.send has settled
mcp_settle(outcome) ==
    CASE outcome = "error" ->
            Resp(500, "error", "Failed to send booking request. Please try again.")
      [] outcome = "reject" ->
            Resp(500, "error", "Service temporarily unavailable. Please try again.")
      [] outcome = "ok" -> Resp(200, "content", MsgBooked)

\* index.js: the CallToolRequestSchema handler, up to its await
index_handler(req, store) ==
    IF req.tool # "request_cleaning"
    THEN Ran(store, <<>>, FALSE, NoVerdict, Text("Unknown tool requested."))
    ELSE IF ~truthy(req.name) \/ ~truthy(req.phone) \/ ~truthy(req.address)
    THEN Ran(store, <<>>, FALSE, NoVerdict,
             Text("Error: All fields (name, phone, address) are required."))
    ELSE
    LET cleanName == index_sanitizeString(req.name, 100)
        cleanAddress == index_sanitizeString(req.address, 200)
        t1 == <<"sanitize", "name">>
    IN
    IF Len(cleanName) < 2
    THEN Ran(store, t1, FALSE, [NoVerdict EXCEPT !.name = "invalid"],
             Text("Error: Please provide a valid name (at least 2 characters)."))
    ELSE
    LET phoneValidation == index_validatePhone(req.phone)
        t2 == t1 \o <<"phone">>
        v2 == [NoVerdict EXCEPT !.name = "valid"]
    IN
    IF ~phoneValidation.valid
    THEN Ran(store, t2, FALSE, [v2 EXCEPT !.phone = "invalid"],
             Text("Error: Please provide a valid 10-digit US phone number."))
    ELSE
    LET t3 == t2 \o <<"addressLength">>
        v3 == [v2 EXCEPT !.phone = "valid"]
    IN
    IF Len(cleanAddress) < MinAddressLength
    THEN Ran(store, t3, FALSE, [v3 EXCEPT !.addressLength = "invalid"],
             Text("Error: Please provide a complete address."))
    ELSE
    LET t4 == t3 \o <<"classify">>
        v4 == [v3 EXCEPT !.addressLength = "valid"]
    IN
    IF ~index_validateSFAddress(cleanAddress)
    THEN Ran(store, t4, FALSE, [v4 EXCEPT !.region = "out"], Text(MsgDecline))
    ELSE Awaits(store, t4 \o <<"send">>, FALSE, [v4 EXCEPT !.region = "in"],
                [name |-> cleanName, phone |-> phoneValidation.cleaned, address |-> cleanAddress])

\* index.js: what the handler returns once Promise.race has settled: with the
\* value of emailPromise ("ok", or "error" for a result that carries an error),
\* with its rejection, or with the rejection of timeoutPromise
index_settle(outcome) ==
    CASE outcome \in {"ok", "error"} -> Text(MsgBooked)
      [] outcome \in {"reject", "timeout"} ->
            Text("Booking received but email notification failed. The service will still process your request.")

handle(req, store, t) ==
    IF req.entry = "http" THEN mcp_handler(req, store, t) ELSE index_handler(req, store)

settle(entry, outcome) ==
    IF entry = "http" THEN mcp_settle(outcome) ELSE index_settle(outcome)

----------------------------------------------------------------------------
(* Requests, and the steps of the two handlers *)

MaxRequests == 2
MaxNow == 20000
MaxRateRequests == 12
MaxRateNow == 90000

ClientIp == "203.0.113.7"

\* the name of the test 'sanitizes HTML in customer input'
XssName ==
    Str(<<"T","e","s","t","<","s","c","r","i","p","t",">","a","l","e","r","t","(","\"","X","S","S","\"",")","<","/","s","c","r","i","p","t",">","U","s","e","r">>)

Names == {Str(<<"J","o","h","n"," ","D","o","e">>), Str(<<"J">>), Str(<<"4","2">>), Undefined, XssName}
Phones == {Str(<<"4","1","5","5","5","5","1","2","3","4">>), Str(<<"0","1","5","5","5","5","1","2","3","4">>), Str(<<"1","2","3">>), Num123}
Addresses == {Str(<<"1","2","3"," ","M","a","r","k","e","t"," ","S","t",","," ","S","F">>),
              Str(<<"1","2"," ","T","r","a","n","s","f","e","r"," ","S","t",","," ","O","a","k","l","a","n","d">>),
              Str(<<"4","5","6"," ","B","r","o","a","d","w","a","y",","," ","O","a","k","l","a","n","d",","," ","C","A"," ","9","4","6","0","7">>),
              Str(<<"O","a","k","l","a","n","d">>)}

HttpRequest(httpMethod, body, rpc, tool, name, phone, address, apiKey) ==
    [entry |-> "http", ip |-> ClientIp, httpMethod |-> httpMethod, body |-> body, rpc |-> rpc,
     tool |-> tool, name |-> name, phone |-> phone, address |-> address, apiKey |-> apiKey]

StdioRequest(tool, name, phone, address) ==
    [entry |-> "stdio", ip |-> "none", httpMethod |-> "none", body |-> "object",
     rpc |-> "tools/call", tool |-> tool, name |-> name, phone |-> phone, address |-> address,
     apiKey |-> TRUE]

GoodName == Str(<<"J","o","h","n"," ","D","o","e">>)
GoodPhone == Str(<<"4","1","5","5","5","5","1","2","3","4">>)
GoodAddress == Str(<<"1","2","3"," ","M","a","r","k","e","t"," ","S","t",","," ","S","F">>)

HttpCalls ==
    {HttpRequest("POST", "object", "tools/call", "request_cleaning", n, ph, a, TRUE) :
        n \in Names, ph \in Phones, a \in Addresses}

HttpOthers ==
    {HttpRequest("OPTIONS", "none", "none", "none", Undefined, Undefined, Undefined, TRUE),
     HttpRequest("GET", "none", "none", "none", Undefined, Undefined, Undefined, TRUE),
     HttpRequest("POST", "none", "none", "none", Undefined, Undefined, Undefined, TRUE),
     HttpRequest("POST", "large", "tools/call", "request_cleaning", GoodName, GoodPhone, GoodAddress, TRUE),
     HttpRequest("POST", "object", "initialize", "none", Undefined, Undefined, Undefined, TRUE),
     HttpRequest("POST", "object", "tools/list", "none", Undefined, Undefined, Undefined, TRUE),
     HttpRequest("POST", "object", "tools/call", "other", GoodName, GoodPhone, GoodAddress, TRUE),
     HttpRequest("POST", "object", "other", "none", Undefined, Undefined, Undefined, TRUE),
     HttpRequest("POST", "object", "tools/call", "request_cleaning", GoodName, GoodPhone, GoodAddress, FALSE)}

StdioCalls ==
    {StdioRequest("request_cleaning", n, ph, a) : n \in Names, ph \in Phones, a \in Addresses}

StdioOthers == {StdioRequest("other", GoodName, GoodPhone, GoodAddress)}

Inputs == HttpCalls \cup HttpOthers \cup StdioCalls \cup StdioOthers

\* the requests of the rate-limit runs: a booking that goes on to await the
\* Notifier, and a tools/list
RateInputs ==
    {HttpRequest("POST", "object", "tools/call", "request_cleaning", GoodName, GoodPhone, GoodAddress, TRUE),
     HttpRequest("POST", "object", "tools/list", "none", Undefined, Undefined, Undefined, TRUE)}

NoTraffic == [arrived |-> <<>>, admitted |-> <<>>]
TrafficOf(ip) == IF ip \in DOMAIN traffic THEN traffic[ip] ELSE NoTraffic

\* a race that subscribes to the first promise of its array only
index_race_firstOnly(promises) == promises \cap {"send"}

\* index.js: Promise.race([emailPromise, timeoutPromise]) subscribes to every
\* promise of its array, so the rejection of each of them has a handler
index_race(promises) == promises

\* a suspended handler: the stdio handler has armed its timer, the HTTP handler
\* has none.  left is the promises that have not settled yet, handled those
\* whose rejection has a handler, returned whether the handler has returned
\* its response (the promises left are then the losers of the race).
Suspended(req) ==
    IF req.entry = "stdio"
    THEN [entry |-> "stdio", timer |-> "armed", deadline |-> now + EmailTimeoutMs,
          left |-> {"send", "timer"}, handled |-> index_race({"send", "timer"}),
          returned |-> FALSE]
    ELSE [entry |-> "http", timer |-> "none", deadline |-> 0,
          left |-> {"send"}, handled |-> {"send"}, returned |-> FALSE]

\* the handler of p has returned and the promise that settled is no longer left
Returns(bag, p, promise) ==
    IF p.left = {promise} THEN Resume(bag, p)
    ELSE Suspend(Resume(bag, p), [p EXCEPT !.left = @ \ {promise}, !.returned = TRUE])

\* the effect of a handler run r on the state: the store it wrote, the
\* handler left suspended if it awaits, and the record of the run
Respond(req, r, maxRequests) ==
    /\ received < maxRequests
    /\ requestStore' = r.requestStore
    /\ traffic' =
         IF r.trace # <<>> /\ r.trace[1] = "rateLimit"
         THEN MapSet(traffic, req.ip,
                 [arrived |-> Append(TrafficOf(req.ip).arrived, now),
                  admitted |-> IF r.admitted
                               THEN Append(TrafficOf(req.ip).admitted, now)
                               ELSE TrafficOf(req.ip).admitted])
         ELSE traffic
    /\ pending' = IF r.awaiting THEN Suspend(pending, Suspended(req)) ELSE pending
    /\ last' = [phase |-> "handle", entry |-> req.entry, req |-> req, trace |-> r.trace,
                admitted |-> r.admitted, verdict |-> r.verdict, resp |-> r.resp,
                awaiting |-> r.awaiting, email |-> r.email, outcome |-> "none"]
    /\ received' = received + 1
    /\ UNCHANGED <<now, requests, ret, history, arg, out>>

\* a request arrives at one of the two entry points and its handler runs up to
\* its response or up to the await of resend.emails.send
Receive(req, maxRequests) ==
    Respond(req, handle(req, requestStore, now), maxRequests)

Settled(p, outcome) ==
    [phase |-> "settle", entry |-> p.entry, req |-> p, trace |-> <<>>, admitted |-> FALSE,
     verdict |-> NoVerdict, resp |-> settle(p.entry, outcome), awaiting |-> FALSE,
     email |-> NoEmail, outcome |-> outcome]

\* resend.emails.send settles: with a result ("ok"), with a result that carries
\* an error ("error"), or by rejecting ("reject")
NotifierSettles(p, outcome) ==
    /\ p \in DOMAIN pending
    /\ ~p.returned
    /\ pending' = Returns(pending, p, "send")
    /\ last' = Settled(p, outcome)
    /\ UNCHANGED <<now, requests, ret, history, requestStore, traffic, received, arg, out>>

\* index.js: the timer of timeoutPromise fires
Timeout(p) ==
    /\ p \in DOMAIN pending
    /\ ~p.returned
    /\ p.timer = "armed"
    /\ now >= p.deadline
    /\ pending' = Returns(pending, p, "timer")
    /\ last' = Settled(p, "timeout")
    /\ UNCHANGED <<now, requests, ret, history, requestStore, traffic, received, arg, out>>

\* the loser of the race settles after the handler has returned: no handler
\* code runs, and a rejection without a handler would reach
\* process.on('unhandledRejection'), which ends the process (exit)
Late(p, promise, outcome) ==
    [phase |-> "late", entry |-> p.entry, req |-> p, trace |-> <<>>, admitted |-> FALSE,
     verdict |-> NoVerdict, resp |-> NoResp, awaiting |-> FALSE, email |-> NoEmail,
     outcome |-> outcome,
     exit |-> outcome \in {"reject", "timeout"} /\ promise \notin p.handled]

\* index.js: resend.emails.send settles after the timeout
LateNotifier(p, outcome) ==
    /\ p \in DOMAIN pending
    /\ p.returned /\ p.left = {"send"}
    /\ pending' = Resume(pending, p)
    /\ last' = Late(p, "send", outcome)
    /\ UNCHANGED <<now, requests, ret, history, requestStore, traffic, received, arg, out>>

\* index.js: the timer of timeoutPromise fires after resend.emails.send settled
LateTimer(p) ==
    /\ p \in DOMAIN pending
    /\ p.returned /\ p.left = {"timer"}
    /\ now >= p.deadline
    /\ pending' = Resume(pending, p)
    /\ last' = Late(p, "timer", "timeout")
    /\ UNCHANGED <<now, requests, ret, history, requestStore, traffic, received, arg, out>>

\* the store after RATE_LIMIT requests of one ip at time 0, all answered
FullStore == [ip \in {ClientIp} |-> [i \in 1..RATE_LIMIT |-> 0]]
FullTraffic == [ip \in {ClientIp} |-> [arrived |-> FullStore[ip], admitted |-> FullStore[ip]]]

Init ==
    /\ now = 0
    /\ LimiterIdle
    /\ ValidatorsIdle
    /\ \/ requestStore = EmptyMap /\ traffic = EmptyMap
       \/ requestStore = FullStore /\ traffic = FullTraffic
    /\ pending = NonePending
    /\ last = NoStep
    /\ received = 0

Next ==
    \/ \E req \in Inputs : Receive(req, MaxRequests)
    \/ \E p \in DOMAIN pending, outcome \in {"ok", "error", "reject"} : NotifierSettles(p, outcome)
    \/ \E p \in DOMAIN pending : Timeout(p)
    \/ \E p \in DOMAIN pending, outcome \in {"ok", "error", "reject"} : LateNotifier(p, outcome)
    \/ \E p \in DOMAIN pending : LateTimer(p)
    \/ Advance(EmailTimeoutMs, MaxNow)

Spec == Init /\ [][Next]_vars

InitRate ==
    /\ now = 0
    /\ LimiterIdle
    /\ ValidatorsIdle
    /\ HandlersIdle

NextRate ==
    \/ \E req \in RateInputs : Receive(req, MaxRateRequests)
    \/ \E p \in DOMAIN pending, outcome \in {"ok", "error", "reject"} : NotifierSettles(p, outcome)
    \/ Advance(RATE_WINDOW \div 2, MaxRateNow)

SpecRate == InitRate /\ [][NextRate]_vars

----------------------------------------------------------------------------
(* Properties of the two handlers *)

Steps(trace) == {trace[i] : i \in DOMAIN trace}

Before(trace, a, b) ==
    \A i, j \in DOMAIN trace : (trace[i] = a /\ trace[j] = b) => i < j

\* a handler run of the request_cleaning tool
CleaningRun ==
    /\ last.phase = "handle"
    /\ last.req.rpc = "tools/call"
    /\ last.req.tool = "request_cleaning"

\* C1: a handler calls resend.emails.send only for a request that the rate
\* limiter admitted, whose name and phone validateName and validatePhone
\* accept, and whose sanitized address validateSFAddress classifies in region.
C1_NotifierOnlyIfAllHold ==
    (CleaningRun /\ last.awaiting) =>
        /\ last.admitted
        /\ validateName(last.req.name).valid
        /\ validatePhone(last.req.phone).valid
        /\ validateSFAddress(Str(last.email.address))

\* C4: with handlers of one ip suspended at their await while others arrive,
\* no span of RATE_WINDOW milliseconds that starts at an arrival holds more
\* than RATE_LIMIT admitted requests of the ip, a span with more than
\* RATE_LIMIT arrivals has a denied one, and the array stored for the ip is
\* the admitted requests of the window of its last admission, none lost.
C4_NoLostUpdate ==
    \A ip \in DOMAIN traffic :
        LET arrived == traffic[ip].arrived
            admitted == traffic[ip].admitted
        IN  /\ \A i \in DOMAIN arrived :
                  /\ AdmittedIn(admitted, arrived[i], RATE_WINDOW) <= RATE_LIMIT
                  /\ AdmittedIn(arrived, arrived[i], RATE_WINDOW) > RATE_LIMIT
                        => AdmittedIn(admitted, arrived[i], RATE_WINDOW)
                              < AdmittedIn(arrived, arrived[i], RATE_WINDOW)
            /\ admitted # <<>> =>
                  MapGetOrEmpty(requestStore, ip)
                      = recent(admitted, admitted[Len(admitted)], RATE_WINDOW)

\* RATE_LIMIT handlers of the ip are suspended at their await and one more
\* request of the same instant has been denied
C4_Witness ==
    /\ InFlight(pending) = RATE_LIMIT
    /\ last.phase = "handle"
    /\ last.resp.status = 429
    /\ AdmittedIn(TrafficOf(ClientIp).arrived, now, 1) > RATE_LIMIT
    /\ AdmittedIn(TrafficOf(ClientIp).admitted, now, 1) = RATE_LIMIT

\* C5: a run whose SF check classifies the sanitized address out of region
\* returns the fixed decline message and does not call resend.emails.send.
C5_OutOfRegionDeclined ==
    (CleaningRun /\ last.verdict.region = "out") =>
        /\ last.resp.text = "Sorry, we only serve San Francisco currently. We're expanding - stay tuned!"
        /\ ~last.awaiting
        /\ "send" \notin Steps(last.trace)
        /\ last.email = NoEmail

\* a request with an accepted name and phone and an Oakland address was declined
C5_Witness ==
    /\ CleaningRun
    /\ last.verdict = [name |-> "valid", phone |-> "valid", addressLength |-> "none", region |-> "out"]
    /\ last.req.address = Str(<<"4","5","6"," ","B","r","o","a","d","w","a","y",","," ","O","a","k","l","a","n","d",","," ","C","A"," ","9","4","6","0","7">>)
    /\ last.resp = Resp(200, "content", MsgDecline)
    /\ InFlight(pending) = 0

\* C6: every handler that awaits resend.emails.send has armed a timer that
\* ends the wait, so none is left pending when the Notifier never settles.
C6_GuardedByTimeout ==
    \A p \in DOMAIN pending : p.timer = "armed"

\* the caller-facing messages of a Notifier failure
FailedMessages ==
    {"Failed to send booking request. Please try again.",
     "Service temporarily unavailable. Please try again.",
     "Service temporarily unavailable. Please try again later."}

\* C7: when the Notifier returns an error result, rejects or times out, the
\* handler answers with a service-unavailable / try-again message and never
\* with the confirmation.
C7_FailureNeverConfirms ==
    (last.phase = "settle" /\ last.outcome \in {"error", "reject", "timeout"}) =>
        /\ last.resp.text # MsgBooked
        /\ last.resp.text \in FailedMessages

NameReasons ==
    {"Invalid name provided",
     "Error: Please provide a valid name (at least 2 characters)."}

PhoneReasons ==
    {"Invalid phone number. Please provide a 10-digit US phone number.",
     "Error: Please provide a valid 10-digit US phone number."}

\* C8: the checks run in the order name, phone, classification; a run whose
\* name check fails answers with the name reason, a run whose name passes and
\* whose phone check does not answers with the phone reason, and after a
\* failed check no later check and no send happens.
C8_ValidatorOrder ==
    (CleaningRun /\ "name" \in Steps(last.trace)) =>
        /\ Before(last.trace, "name", "phone")
        /\ Before(last.trace, "phone", "classify")
        /\ Before(last.trace, "classify", "send")
        /\ last.verdict.name # "valid" =>
              /\ last.resp.text \in NameReasons
              /\ Steps(last.trace) \cap {"phone", "addressLength", "classify", "send"} = {}
        /\ (last.verdict.name = "valid" /\ "phone" \in Steps(last.trace)
              /\ last.verdict.phone # "valid") =>
              /\ last.resp.text \in PhoneReasons
              /\ Steps(last.trace) \cap {"addressLength", "classify", "send"} = {}

C9_RateLimiterFirst ==
    (CleaningRun /\ last.req.httpMethod \notin {"OPTIONS", "GET"}) =>
        /\ last.trace # <<>> /\ last.trace[1] = "rateLimit"
        /\ ~last.admitted => (Steps(last.trace) \subseteq {"rateLimit"} /\ ~last.awaiting)

----------------------------------------------------------------------------
(* Calls of sanitizeString on bounded inputs *)

MaxSanLen == 3
MaxSliceLen == 2

SanAlphabet == {"<", ">", "\"", "'", "a", " "}

TextsUpTo(alphabet, n) == UNION {[1..k -> alphabet] : k \in 0..n}

LongText == [i \in 1..(DefaultMaxLength + 5) |-> "a"]

SanitizeSamples == {
    LongText,
    <<"<","s","c","r","i","p","t",">","a","l","e","r","t","(","\"","X","S","S","\"",")","<","/","s","c","r","i","p","t",">">>,
    <<"<","i","m","g"," ","s","r","c","=","x"," ","o","n","e","r","r","o","r","=","a","l","e","r","t","(","\"","X","S","S","\"",")",">">>,
    <<"<","<","S","C","R","I","P","T",">","a","l","e","r","t","(","\"","X","S","S","\"",")",";","/","/","<","<","/","S","C","R","I","P","T",">">>,
    <<"T","e","s","t","<","s","c","r","i","p","t",">","a","l","e","r","t","(","\"","X","S","S","\"",")","<","/","s","c","r","i","p","t",">","U","s","e","r">>,
    <<"<","d","i","v"," ","s","t","y","l","e","=","\"","b","a","c","k","g","r","o","u","n","d",":","u","r","l","(","j","a","v","a","s","c","r","i","p","t",":","a","l","e","r","t","(","'","X","S","S","'",")",")","\"",">","q">>,
    <<"<","s","t","y","l","e"," ",">","x","<","/","S","T","Y","L","E",">","y">>,
    <<" "," ","O","'","C","o","n","n","o","r"," "," ">>,
    <<"H","e","l","l","o","\"","W","o","r","l","d","\"">>,
    <<"j","a","v","a","j","a","v","a","s","c","r","i","p","t",":","s","c","r","i","p","t",":","a","l","e","r","t","(","1",")">>,
    <<"j","a","v","a","o","n","x","=","s","c","r","i","p","t",":","a","l","e","r","t","(","1",")">>,
    <<"o","o","n","c","l","i","c","k","=","n","c","l","i","c","k","=","a","l","e","r","t","(","1",")">>,
    <<"J","a","v","a","S","c","r","i","p","t",":","a","l","e","r","t","(","1",")"," ","O","N","L","O","A","D"," ","=","x">> }

\* maxLength is passed (hasMax) or left to its default
SanitizeArgs ==
    [str : {Str(s) : s \in TextsUpTo(SanAlphabet, MaxSanLen)} \cup NonText,
     hasMax : {TRUE}, maxLength : 0..MaxSliceLen]
    \cup [str : {Str(s) : s \in TextsUpTo(SanAlphabet, MaxSanLen) \cup SanitizeSamples} \cup NonText,
          hasMax : {FALSE}, maxLength : {DefaultMaxLength}]
    \cup [str : {Str(s) : s \in SanitizeSamples}, hasMax : {TRUE}, maxLength : {MaxSliceLen, 100}]

InitSanitize ==
    /\ now = 0
    /\ LimiterIdle
    /\ HandlersIdle
    /\ arg \in SanitizeArgs
    /\ out = NotCalled

CallSanitize ==
    /\ ~out.done
    /\ out' = [done |-> TRUE,
               v |-> IF arg.hasMax THEN sanitizeString(arg.str, arg.maxLength)
                     ELSE sanitizeString(arg.str, DefaultMaxLength)]
    /\ UNCHANGED <<now, requests, ret, history, requestStore, traffic, pending, last, received, arg>>

NextSanitize == CallSanitize

SpecSanitize == InitSanitize /\ [][NextSanitize]_vars

\* C10: the output of sanitizeString holds none of < > " ' and has at most
\* maxLength characters (200 when maxLength is omitted); a non-text input
\* gives the empty string.
C10_SanitizedOutput ==
    out.done =>
        /\ \A i \in DOMAIN out.v : out.v[i] \notin {"<", ">", "\"", "'"}
        /\ Len(out.v) <= (IF arg.hasMax THEN arg.maxLength ELSE 200)
        /\ typeof(arg.str) # "string" => out.v = <<>>

\* a text holding a quote and longer than maxLength was cut to maxLength
C10_Witness ==
    /\ out.done
    /\ typeof(arg.str) = "string"
    /\ \E i \in DOMAIN arg.str.s : arg.str.s[i] \in {"<", ">", "\"", "'"}
    /\ arg.hasMax /\ arg.maxLength > 0
    /\ Len(out.v) = arg.maxLength
    /\ Len(arg.str.s) > Len(out.v) + 1

\* re.test(s): re matches somewhere in s
test(re, s) == \E i \in 1..Len(s) : MatchEnd(re, s, i) > i

\* C11: the output of sanitizeString on a text holds no javascript: scheme
\* and no on<word>= event-handler pattern, in any letter case.
C11_NoSchemeNoHandler ==
    (out.done /\ typeof(arg.str) = "string") =>
        /\ ~test("javascript", out.v)
        /\ ~test("handler", out.v)

----------------------------------------------------------------------------
(* Calls of validatePhone, validateName and validateSFAddress on bounded   *)
(* inputs.  arg is the call: the function, its argument, and whether the   *)
(* argument is an input or the cleaned phone of the call before.           *)

MaxPhoneDigits == 12
MaxNameLen == 3

PhoneFiller == <<"5","5","5","1","2","3","4","5","6","7","8","9","0">>

\* n digits that start with first and second
PhoneDigits(first, second, n) ==
    [i \in 1..n |-> IF i = 1 THEN first ELSE IF i = 2 THEN second ELSE PhoneFiller[i]]

\* the digits d written plain, with dashes, with parentheses or with dots
PhoneWritten(d, style) ==
    CASE style = "plain" -> d
      [] style = "dashed" -> slice(d, 0, 3) \o <<"-">> \o slice(d, 3, 6) \o <<"-">> \o slice(d, 6, Len(d))
      [] style = "paren" -> <<"(">> \o slice(d, 0, 3) \o <<")", " ">> \o slice(d, 3, 6) \o <<"-">> \o slice(d, 6, Len(d))
      [] style = "dotted" -> slice(d, 0, 3) \o <<".">> \o slice(d, 3, Len(d))

PhoneTexts ==
    {pre \o PhoneWritten(PhoneDigits(first, second, n), style) \o post :
        pre \in {<<>>, <<"-">>, <<" ", "-">>, <<" ">>, <<"+">>, <<"x", "-">>},
        first \in {"0", "1", "2", "9"}, second \in {"0", "1", "4"},
        n \in 0..MaxPhoneDigits,
        style \in {"plain", "dashed", "paren", "dotted"},
        post \in {<<>>, <<" ">>, <<"x">>}}
    \cup {<<"(","4","1","5",")"," ","5","5","5","-","1","2","3","4">>,
          <<"4","1","5",".","5","5","5",".","1","2","3","4">>,
          <<"+","1"," ","4","1","5"," ","5","5","5"," ","1","2","3","4">>,
          <<"1","-","4","1","5","-","5","5","5","-","1","2","3","4">>,
          <<"1","4","1","5","5","5","5","1","2","3","4">>,
          <<"1","2","3","4","5","6","7","8","9","0","1">>,
          <<"+","1","4","1","5","5","5","5","1","2","3","4">>,
          <<"+","1"," ","(","4","1","5",")"," ","5","5","5","-","1","2","3","4">>,
          <<"-","4","1","5","5","5","5","1","2","3","4">>,
          <<"-","4","1","5","-","5","5","5","-","1","2","3","4">>,
          <<"4","1","5","-","5","5","5","-","1","2","3","4","<","s","c","r","i","p","t",">">>,
          <<"a","b","c">>,
          <<>>}

NameAlphabet == {"a", "Z", " ", "\t", "-", "'", "1", ";"}

NameTexts ==
    TextsUpTo(NameAlphabet, MaxNameLen)
    \cup {[i \in 1..n |-> "A"] : n \in {MaxNameLength - 1, MaxNameLength, MaxNameLength + 1}}
    \cup {<<" ">> \o [i \in 1..MaxNameLength |-> "A"] \o <<" ">>}
    \cup {<<"J","o","h","n"," ","D","o","e">>,
          <<"M","a","r","y","-","J","a","n","e"," ","S","m","i","t","h">>,
          <<"O","'","C","o","n","n","o","r">>,
          <<"J","o">>,
          <<"J">>,
          <<" "," "," ">>,
          <<"J","o","h","n","1","2","3">>,
          <<"J","a","n","e","@","D","o","e">>,
          <<"R","o","b","e","r","t",";"," ","D","R","O","P"," ","T","A","B","L","E">>,
          <<"-","-","-">>,
          <<"'","'">>,
          <<"M","a","n","d","r","o","p">>,
          <<"U","n","i","o","n"," ","J","a","c","k">>,
          <<"A","l"," ","D","e","l","e","t","e">>,
          <<"a","-","-","b">>,
          <<"J","o","h","n","\t","D","o","e">>,
          <<"J","o","h","n","\n","D","o","e">>,
          <<" ","J","o"," ">>,
          <<"\t","J","o","\n">>}

AddressCores ==
    {<<"s","f">>,
     <<"S","F">>,
     <<"s",".","f",".">>,
     <<"S",".","F",".">>,
     <<"s",".","f","x">>,
     <<"s","x","f",".">>,
     <<"s","a","n"," ","f","r","a","n","c","i","s","c","o">>,
     <<"S","a","n"," ","F","r","a","n">>,
     <<"s","a","n","f","r","a","n","c","i","s","c","o">>,
     <<"9","4","1","0","5">>,
     <<"9","4","1","9","0">>,
     <<"9","4","1","8","9">>,
     <<"9","4","0","0","0">>,
     <<"9","4","1","0","0">>,
     <<"9","4","6","0","7">>,
     <<"9","4","0","1","4">>,
     <<"9","4","7","0","4">>,
     <<"9","5","0","0","0">>,
     <<"9","4","1","0">>,
     <<"s","a","t","i","s","f","y">>,
     <<"t","r","a","n","s","f","e","r">>,
     <<"o","a","k","l","a","n","d">>}

AddressTexts ==
    {pre \o core \o post :
        pre \in {<<>>, <<"1","2","3"," ","M","a","i","n",","," ">>, <<"x">>, <<"1">>, <<"_">>},
        core \in AddressCores,
        post \in {<<>>, <<","," ","C","A">>, <<"x">>, <<"1">>, <<".">>, <<" ">>}}
    \cup {<<"1","2","3"," ","M","a","r","k","e","t"," ","S","t",","," ","S","a","n"," ","F","r","a","n","c","i","s","c","o",","," ","C","A">>,
          <<"4","5","6"," ","P","i","n","e"," ","S","t",","," ","S","F",","," ","C","A">>,
          <<"7","8","9"," ","B","r","o","a","d","w","a","y",","," ","S",".","F",".",","," ","C","a","l","i","f","o","r","n","i","a">>,
          <<"1"," ","M","a","i","n"," ","S","t",","," ","S","a","n"," ","F","r","a","n">>,
          <<"1","2","3"," ","M","a","i","n",","," ","S",".","F",".">>,
          <<"1","2","3"," ","M","a","r","k","e","t"," ","S","t",","," ","9","4","1","0","5">>,
          <<"7","8","9"," ","B","r","o","a","d","w","a","y",","," ","9","4","1","8","8">>,
          <<"1","2","3"," ","B","r","o","a","d","w","a","y",","," ","O","a","k","l","a","n","d",","," ","C","A"," ","9","4","6","0","7">>,
          <<"1","2","3"," ","S","a","t","i","s","f","y"," ","S","t",","," ","O","a","k","l","a","n","d">>,
          <<"4","5","6"," ","T","r","a","n","s","f","e","r"," ","A","v","e",","," ","B","e","r","k","e","l","e","y">>,
          <<"1","2","3"," ","M","a","r","k","e","t"," ","S","t",","," ","S","A","N"," ","F","R","A","N","C","I","S","C","O">>,
          <<"7","8","9"," ","P","i","n","e"," ","S","t",","," ","B","e","r","k","e","l","e","y",","," ","9","4","7","0","4">>,
          <<"1","2","3"," ","M","a","i","n"," ","S","t",","," ","D","a","l","y"," ","C","i","t","y",","," ","9","4","0","1","4">>,
          <<"4","5","6"," ","O","a","k"," ","A","v","e",","," ","S","o","u","t","h"," ","S","a","n"," ","F","r","a","n","c","i","s","c","o">>,
          <<"1"," ","M","a","r","k","e","t"," ","S","t",","," ","9","5","0","0","0">>,
          <<>>}

ValidatorArgs ==
    [fn : {"validatePhone"}, v : {Str(t) : t \in PhoneTexts} \cup NonText, from : {"input"}]
    \cup [fn : {"validateName"}, v : {Str(t) : t \in NameTexts} \cup NonText, from : {"input"}]
    \cup [fn : {"validateSFAddress"}, v : {Str(t) : t \in AddressTexts} \cup NonText, from : {"input"}]

InitValidators ==
    /\ now = 0
    /\ LimiterIdle
    /\ HandlersIdle
    /\ arg \in ValidatorArgs
    /\ out = NotCalled

Returned(v) ==
    /\ out' = [done |-> TRUE, v |-> v]
    /\ UNCHANGED <<now, requests, ret, history, requestStore, traffic, pending, last, received>>

CallValidatePhone ==
    /\ ~out.done /\ arg.fn = "validatePhone"
    /\ arg' = arg
    /\ Returned(validatePhone(arg.v))

\* validatePhone is called on the cleaned phone it returned
CallValidatePhoneAgain ==
    /\ out.done /\ arg.fn = "validatePhone" /\ arg.from = "input"
    /\ out.v.valid
    /\ arg' = [fn |-> "validatePhone", v |-> out.v.cleaned, from |-> "cleaned"]
    /\ Returned(validatePhone(out.v.cleaned))

CallValidateName ==
    /\ ~out.done /\ arg.fn = "validateName"
    /\ arg' = arg
    /\ Returned(validateName(arg.v))

CallValidateSFAddress ==
    /\ ~out.done /\ arg.fn = "validateSFAddress"
    /\ arg' = arg
    /\ Returned(validateSFAddress(arg.v))

NextValidators ==
    \/ CallValidatePhone
    \/ CallValidatePhoneAgain
    \/ CallValidateName
    \/ CallValidateSFAddress

SpecValidators == InitValidators /\ [][NextValidators]_vars

\* the k-th digit of the text p, in the order of the text
NthDigit(p, k) ==
    LET at == {i \in DOMAIN p : isDigit(p[i])}
        i == CHOOSE x \in at : Cardinality({j \in at : j < x}) = k - 1
    IN  p[i]

\* the text p begins with "-" once leading white space is dropped
BeginsWithMinus(p) ==
    \E i \in DOMAIN p : p[i] = "-" /\ \A j \in 1..(i - 1) : isSpace(p[j])

\* c is written DDD-DDD-DDDD and its first digit is one of 2..9
Canonical(c) ==
    /\ Len(c) = 12
    /\ c[4] = "-" /\ c[8] = "-"
    /\ \A i \in (1..12) \ {4, 8} : isDigit(c[i])
    /\ c[1] \notin {"0", "1"}

C13_LeftInverse ==
    (out.done /\ arg.fn = "validatePhone") =>
        /\ out.v.valid => Canonical(out.v.cleaned.s)
        /\ arg.from = "cleaned" => out.v = [valid |-> TRUE, cleaned |-> arg.v]

\* validatePhone was called on a cleaned phone it had returned, and accepted it
C13_Witness ==
    /\ out.done /\ arg.fn = "validatePhone" /\ arg.from = "cleaned"
    /\ out.v.valid
    /\ Canonical(arg.v.s)

\* s holds the text p at position i, with no word character next to it
WholeAt(s, i, p) ==
    /\ startsWithAt(s, i, p)
    /\ i - 1 >= 1 => ~isWordChar(s[i - 1])
    /\ i + Len(p) <= Len(s) => ~isWordChar(s[i + Len(p)])

\* five digits at position i of s that read 940xx or 9410x..9418x
ZipAt(s, i) ==
    /\ i + 4 <= Len(s)
    /\ \A k \in 0..4 : isDigit(s[i + k])
    /\ s[i] = "9" /\ s[i + 1] = "4" /\ s[i + 2] \in {"0", "1"}
    /\ s[i + 2] = "1" => s[i + 3] # "9"
    /\ i - 1 >= 1 => ~isWordChar(s[i - 1])
    /\ i + 5 <= Len(s) => ~isWordChar(s[i + 5])

\* C14: validateName accepts a value exactly when it is a text whose trimmed
\* form has 2 to 100 characters, all of them letters, spaces, hyphens or
\* apostrophes, holds none of --, /*, */, ; and none of the words drop,
\* delete, union in any case, and holds a letter.
C14_NameReference ==
    (out.done /\ arg.fn = "validateName") =>
        (out.v.valid <=>
            /\ typeof(arg.v) = "string"
            /\ LET t == trim(arg.v.s)
                   low == toLowerCase(t)
               IN  /\ Len(t) >= 2 /\ Len(t) <= 100
                   /\ \A i \in DOMAIN t : isLetter(t[i]) \/ t[i] \in {" ", "-", "'"}
                   /\ ~\E i \in DOMAIN t :
                         \/ startsWithAt(t, i, <<"-", "-">>)
                         \/ startsWithAt(t, i, <<"/", "*">>)
                         \/ startsWithAt(t, i, <<"*", "/">>)
                         \/ t[i] = ";"
                         \/ startsWithAt(low, i, <<"d","r","o","p">>)
                         \/ startsWithAt(low, i, <<"d","e","l","e","t","e">>)
                         \/ startsWithAt(low, i, <<"u","n","i","o","n">>)
                   /\ \E i \in DOMAIN t : isLetter(t[i]))

\* C15: validateSFAddress is true exactly when the value is a text whose
\* lower-cased form holds one of the keywords sf, san francisco, sanfrancisco,
\* s.f., san fran as a whole word or phrase, or a whole-word postal code of
\* the range.
C15_RegionReference ==
    (out.done /\ arg.fn = "validateSFAddress") =>
        (out.v <=>
            /\ typeof(arg.v) = "string"
            /\ LET addr == toLowerCase(arg.v.s)
               IN  \E i \in DOMAIN addr :
                      \/ WholeAt(addr, i, <<"s","f">>)
                      \/ WholeAt(addr, i, <<"s","a","n"," ","f","r","a","n","c","i","s","c","o">>)
                      \/ WholeAt(addr, i, <<"s","a","n","f","r","a","n","c","i","s","c","o">>)
                      \/ WholeAt(addr, i, <<"s",".","f",".">>)
                      \/ WholeAt(addr, i, <<"s","a","n"," ","f","r","a","n">>)
                      \/ ZipAt(addr, i))

\* C24: validatePhone rejects a text of exactly eleven digits that does not
\* begin with "+", and accepts and formats the text that begins with "+1"
\* and goes on with ten digits the first of which is in 2..9.
C24_ElevenDigitsNeedPlus ==
    (out.done /\ arg.fn = "validatePhone" /\ typeof(arg.v) = "string") =>
        LET p == trim(arg.v.s)
            n == Cardinality({i \in DOMAIN p : isDigit(p[i])})
        IN  /\ (n = 11 /\ ~startsWith(p, <<"+">>)) =>
                  out.v = [valid |-> FALSE, cleaned |-> Null]
            /\ (n = 11 /\ startsWith(p, <<"+", "1">>) /\ NthDigit(p, 2) \notin {"0", "1"}) =>
                  /\ out.v.valid
                  /\ Canonical(out.v.cleaned.s)
                  /\ \A k \in 1..10 : NthDigit(out.v.cleaned.s, k) = NthDigit(p, k + 1)

\* C25: a rejection by validateName carries the reason of its cause: not a
\* text, too short, too long; within the length bounds, a value of allowed
\* characters only that has no letter is rejected with "Name must contain
\* letters", every other rejected value with "Name contains invalid
\* characters".
C25_ReasonOfCause ==
    (out.done /\ arg.fn = "validateName" /\ ~out.v.valid) =>
        out.v.reason =
            IF typeof(arg.v) # "string" THEN "Name must be a string"
            ELSE LET t == trim(arg.v.s)
                 IN  IF Len(t) < MinNameLength THEN "Name too short"
                     ELSE IF Len(t) > MaxNameLength THEN "Name too long"
                     ELSE IF nameCharacters(t) /\ ~\E i \in DOMAIN t : isLetter(t[i])
                          THEN "Name must contain letters"
                     ELSE "Name contains invalid characters"

\* C26: validateSFAddress is true for every address in which s.f., in any
\* letter case, stands as a token of its own, at the end of the address or
\* before punctuation or a space.
C26_AbbreviationAccepted ==
    (out.done /\ arg.fn = "validateSFAddress" /\ typeof(arg.v) = "string") =>
        LET addr == toLowerCase(arg.v.s)
        IN  (\E i \in DOMAIN addr : WholeAt(addr, i, <<"s", ".", "f", ".">>)) => out.v

\* one of the five keywords stands as a whole word or phrase at position i
KeywordAt(s, i) ==
    \/ WholeAt(s, i, <<"s","f">>)
    \/ WholeAt(s, i, <<"s","a","n"," ","f","r","a","n","c","i","s","c","o">>)
    \/ WholeAt(s, i, <<"s","a","n","f","r","a","n","c","i","s","c","o">>)
    \/ WholeAt(s, i, <<"s",".","f",".">>)
    \/ WholeAt(s, i, <<"s","a","n"," ","f","r","a","n">>)

\* the word south and a space stand right before position i
SouthBefore(s, i) == i > 6 /\ WholeAt(s, i - 6, <<"s","o","u","t","h">>) /\ s[i - 1] = " "

\* a whole word of five digits stands at position i
FiveDigitsAt(s, i) ==
    /\ i + 4 <= Len(s)
    /\ \A k \in 0..4 : isDigit(s[i + k])
    /\ i - 1 >= 1 => ~isWordChar(s[i - 1])
    /\ i + 5 <= Len(s) => ~isWordChar(s[i + 5])

\* the postal codes of the neighbouring cities in the tests
NeighbourCodes ==
    {<<"9","4","0","1","4">>, <<"9","4","6","0","7">>, <<"9","4","7","0","4">>, <<"9","5","0","0","0">>}

\* C27: validateSFAddress is false for an address whose only regional signal
\* is a postal code of a neighbouring city (94014, 94607, 94704, 95000), and
\* for an address whose only keyword is the san francisco of South San
\* Francisco.
C27_NeighboursOutOfRegion ==
    (out.done /\ arg.fn = "validateSFAddress" /\ typeof(arg.v) = "string") =>
        LET addr == toLowerCase(arg.v.s)
            codes == {i \in DOMAIN addr : FiveDigitsAt(addr, i)}
            words == {i \in DOMAIN addr : KeywordAt(addr, i)}
        IN  /\ (words = {} /\ codes # {}
                  /\ \A i \in codes : slice(addr, i - 1, i + 4) \in NeighbourCodes) => ~out.v
            /\ (words # {} /\ codes = {} /\ \A i \in words : SouthBefore(addr, i)) => ~out.v

----------------------------------------------------------------------------
(* The race of the stdio handler *)

\* C30: of resend.emails.send and the 10-second timer, the one that settles
\* second has no effect: no response is returned for it, it does not end the
\* process through an unhandled rejection, and the handler it belongs to has
\* returned exactly once, so only one of the two is ever left behind.
C30_LoserHasNoEffect ==
    /\ last.phase = "late" =>
          /\ last.resp = NoResp
          /\ ~last.exit
          /\ last.entry = "stdio"
    /\ \A p \in DOMAIN pending :
          /\ p.returned => (p.entry = "stdio" /\ Cardinality(p.left) = 1)
          /\ ~p.returned => p.left = (IF p.entry = "stdio" THEN {"send", "timer"} ELSE {"send"})
    /\ InFlight(pending) <= received

\* the timer fired after the Notifier had settled and the handler had returned
C30_Witness ==
    /\ last.phase = "late"
    /\ last.outcome = "timeout"
    /\ last.req.left = {"timer"}
    /\ now >= last.req.deadline

----------------------------------------------------------------------------
(* What the handlers put in the message of resend.emails.send *)

SpecialCharacters == {"<", ">", "\"", "'"}

\* C22: the name and the address in the message of resend.emails.send are
\* sanitizeString of the request's name (100) and address (200), with no
\* < > " ' and no content of a script or style element, and the phone is in
\* the form XXX-XXX-XXXX.
C22_ForwardsSanitized ==
    (CleaningRun /\ last.awaiting) =>
        /\ last.email.name = sanitizeString(last.req.name, 100)
        /\ last.email.address = sanitizeString(last.req.address, 200)
        /\ \A i \in DOMAIN last.email.name : last.email.name[i] \notin SpecialCharacters
        /\ \A i \in DOMAIN last.email.address : last.email.address[i] \notin SpecialCharacters
        /\ Len(last.email.phone) = 12
        /\ last.email.phone[4] = "-" /\ last.email.phone[8] = "-"
        /\ \A i \in (1..12) \ {4, 8} : isDigit(last.email.phone[i])

====
